---------------------------- MODULE Spec2Model ----------------------------
(***************************************************************************)
(* Model of the ingestion assets of enershare-twinp2g-db:                  *)
(*   - the four ENTSOG assets of assets/entsog.py (one run over a          *)
(*     partition window, split into sub-window requests);                  *)
(*   - the three spreadsheet assets of assets/desfa.py                     *)
(*     (desfa_flows_daily, desfa_ng_quality_yearly, desfa_ng_gcv_daily).   *)
(* Text is modelled as a sequence of one-character strings, a data frame   *)
(* as a sequence of rows, a cell as a tagged record.                       *)
(***************************************************************************)
EXTENDS Integers, Sequences, FiniteSets, TLC

VARIABLES
    asset,          \* the asset function that is running
    pc,             \* position of the run
    warnings,       \* context.log.warning calls made so far, in order
    output,         \* what the run returned
    \* ---- ENTSOG run
    start,          \* partition window start (day number)
    end,            \* partition window end (day number)
    remote,         \* what the transparency platform holds, per day
    days_list,      \* pd.date_range(start, end, freq='2D')
    i,              \* position of the for loop in days_list (1-based)
    attempt,        \* failed attempts of the current sub-window fetch
    bidaily_data,   \* list of per-sub-window frames
    fetched,        \* sub-window calls that have returned, in order
    \* ---- spreadsheet run
    current_year,   \* datetime.date.today().year
    gets,           \* number of requests.get calls issued
    response,       \* the HTTP response: status code and sheet
    parsed          \* whether pd.read_excel ran

vars == <<asset, pc, warnings, output, start, end, remote, days_list, i,
          attempt, bidaily_data, fetched, current_year, gets, response, parsed>>

entsogVars == <<start, end, remote, days_list, i, attempt, bidaily_data, fetched>>
desfaVars == <<current_year, gets, response, parsed>>

---------------------------------------------------------------------------
(* Bounds of the model *)

\* longest partition window, in days
MaxLen == 3
\* attempts of the retry wrapper for one sub-window
MaxAttempts == 2

---------------------------------------------------------------------------
(* Cells *)

Num(n) == [t |-> "num", n |-> n, s |-> <<>>]
Str(s) == [t |-> "str", n |-> 0, s |-> s]
NaN == [t |-> "nan", n |-> 0, s |-> <<>>]
NoneVal == [t |-> "none", n |-> 0, s |-> <<>>]
EmptyStr == Str(<<>>)

RECURSIVE Concat(_)
\* pd.concat of a list of frames: the rows of each, in list order
Concat(frames) ==
    IF frames = <<>> THEN <<>> ELSE Head(frames) \o Concat(Tail(frames))

MapSeq(s, F(_)) == [k \in 1..Len(s) |-> F(s[k])]

---------------------------------------------------------------------------
(* ENTSOG assets *)

EntsogAssets == {"entsog_flows_daily", "entsog_nominations_daily",
                 "entsog_allocations_daily", "entsog_renominations_daily"}

\* the indicator each asset passes to the API call
Indicator(a) ==
    CASE a = "entsog_flows_daily" -> "physical_flow"
      [] a = "entsog_nominations_daily" -> "nomination"
      [] a = "entsog_allocations_daily" -> "allocation"
      [] a = "entsog_renominations_daily" -> "renomination"

\* one observation as the API returns it
ApiRow(d, hour, off, label, op, dir, val) ==
    [period_from |-> [day |-> d, hour |-> hour, utcoff |-> off],
     point_label |-> label, operator_label |-> op,
     direction_key |-> dir, value |-> val]

\* What the platform may hold for gas day d: nothing; one observation; two
\* observations without a value; a point reported by two operators together
\* with one point reported twice for the same instant (written in two offsets).
DayPool(k, d) ==
    CASE k = 1 -> <<>>
      [] k = 2 -> <<ApiRow(d, 6, 2, "KIPI", "DESFA", "entry", Num(5))>>
      [] k = 3 -> <<ApiRow(d, 6, 2, "KIPI", "DESFA", "entry", EmptyStr),
                    ApiRow(d, 6, 2, "KIPI", "DESFA", "exit", NoneVal)>>
      [] k = 4 -> <<ApiRow(d, 6, 2, "SIDIROKASTRO", "DESFA", "entry", Num(5)),
                    ApiRow(d, 6, 2, "SIDIROKASTRO", "BULGARTRANSGAZ", "entry", Num(6)),
                    ApiRow(d, 6, 1, "KIPI", "DESFA", "entry", Num(7)),
                    ApiRow(d, 7, 2, "KIPI", "DESFA", "entry", Num(8))>>
PoolIds == 1..4

Days == 0..(MaxLen + 1)

RECURSIVE RowsOfDays(_, _, _)
RowsOfDays(rem, from, to) ==
    IF from > to THEN <<>>
    ELSE (IF from \in DOMAIN rem THEN DayPool(rem[from], from) ELSE <<>>)
         \o RowsOfDays(rem, from + 1, to)

\* entsog_utils.entsog_api_call_with_retries(from, to, ...), when the call
\* succeeds: the observations of the gas days from..to, both included (the
\* request of (day, day + 1) is the two-day request of the loop).
ApiCall(rem, from, to) == RowsOfDays(rem, from, to)

RECURSIVE DateRangeFrom(_, _, _)
DateRangeFrom(d, last, step) ==
    IF d > last THEN <<>> ELSE <<d>> \o DateRangeFrom(d + step, last, step)

DateRangeDescending(s, e) ==
    LET up == DateRangeFrom(s, e, 2)
    IN  [k \in 1..Len(up) |-> up[Len(up) + 1 - k]]

\* pd.date_range(start, end, freq='2D'): both ends included
DateRange(s, e) == DateRangeFrom(s, e, 2)

\* points that two operators report
SharedPoints == {"SIDIROKASTRO"}

\* entsog_utils.label_potential_duplicates_with_tso
LabelWithTso(row) ==
    [row EXCEPT !.point_label =
        IF row.point_label \in SharedPoints
        THEN <<row.point_label, row.operator_label>>
        ELSE <<row.point_label>>]

\* pd.to_datetime(..., utc=True) then sanitize_df: hours since day 0, in UTC,
\* without a zone
ToUtcNaive(pf) == pf.day * 24 + pf.hour - pf.utcoff

\* rename, index by (timestamp, point_id, point_type), keep only 'value'
Canonical(row) ==
    [timestamp |-> ToUtcNaive(row.period_from),
     point_id |-> row.point_label,
     point_type |-> row.direction_key,
     value |-> row.value]

KeepValue(r) == r.value # EmptyStr /\ r.value.t \notin {"none", "nan"}

DropMissingOnlyEmpty(rows) == SelectSeq(rows, LAMBDA r : r.value # EmptyStr)

\* data[data['value'] != ''] then data[data['value'].notna()]
DropMissing(rows) == SelectSeq(rows, KeepValue)

\* data.empty
IsEmptyFrame(data) == Len(data) = 0

\* the frame the loop body appends for one non-empty response
SubWindowFrame(data) ==
    DropMissing(MapSeq(MapSeq(data, LabelWithTso), Canonical))

Key(r) == <<r.timestamp, r.point_id, r.point_type>>

\* complete_data.index.is_unique
IndexIsUnique(rows) ==
    \A a, b \in 1..Len(rows) : a # b => Key(rows[a]) # Key(rows[b])

RECURSIVE Duplicated(_, _)
\* complete_data[complete_data.index.duplicated(keep=False)]
Duplicated(rows, k) ==
    IF k > Len(rows) THEN <<>>
    ELSE (IF \E j \in 1..Len(rows) : j # k /\ Key(rows[j]) = Key(rows[k])
          THEN <<rows[k]>> ELSE <<>>) \o Duplicated(rows, k + 1)

NotReturned == [kind |-> "pending", rows |-> <<>>]
OutputNone == [kind |-> "none", rows |-> <<>>]
OutputTable(rows) == [kind |-> "table", rows |-> rows]

ReturnValueAlwaysTable(bd) == OutputTable(Concat(bd))

RECURSIVE FirstOfEachKey(_, _)
FirstOfEachKey(rows, k) ==
    IF k > Len(rows) THEN <<>>
    ELSE (IF \E j \in 1..(k - 1) : rows[j].timestamp = rows[k].timestamp
                                     /\ rows[j].point_id = rows[k].point_id
                                     /\ rows[j].point_type = rows[k].point_type
          THEN <<>> ELSE <<rows[k]>>) \o FirstOfEachKey(rows, k + 1)

ReturnValueDropDuplicates(bd) ==
    IF Len(bd) = 0 THEN OutputNone
    ELSE OutputTable(FirstOfEachKey(Concat(bd), 1))

\* the value of the returned Output
ReturnValue(bd) ==
    IF Len(bd) = 0 THEN OutputNone ELSE OutputTable(Concat(bd))

\* the warnings logged before returning
DuplicateWarnings(bd) ==
    IF Len(bd) # 0 /\ ~IndexIsUnique(Concat(bd))
    THEN <<[kind |-> "duplicates", rows |-> Duplicated(Concat(bd), 1)]>>
    ELSE <<>>

InitEntsog ==
    /\ asset \in EntsogAssets
    /\ start = 0
    /\ end \in (start + 1)..(start + MaxLen)
    /\ remote \in [Days -> PoolIds]
    /\ days_list = DateRange(start, end)
    /\ i = 1
    /\ attempt = 0
    /\ bidaily_data = <<>>
    /\ fetched = <<>>
    /\ warnings = <<>>
    /\ output = NotReturned
    /\ pc = "loop"
    /\ current_year = 0
    /\ gets = 0
    /\ response = <<>>
    /\ parsed = FALSE

InLoop == pc = "loop" /\ i <= Len(days_list)

LoopBodyReturnOnEmpty(data, outcome) ==
    /\ fetched' = Append(fetched, [day |-> days_list[i], outcome |-> outcome,
                                   indicator |-> Indicator(asset)])
    /\ attempt' = 0
    /\ IF IsEmptyFrame(data)
       THEN /\ pc' = "done"
            /\ output' = ReturnValue(bidaily_data)
            /\ warnings' = warnings \o DuplicateWarnings(bidaily_data)
            /\ UNCHANGED <<i, bidaily_data>>
       ELSE /\ bidaily_data' = Append(bidaily_data, SubWindowFrame(data))
            /\ i' = i + 1
            /\ UNCHANGED <<pc, output, warnings>>

\* one iteration of the for loop once the call has returned data
LoopBody(data, outcome) ==
    /\ fetched' = Append(fetched, [day |-> days_list[i], outcome |-> outcome,
                                   indicator |-> Indicator(asset)])
    /\ attempt' = 0
    /\ i' = i + 1
    /\ bidaily_data' = IF IsEmptyFrame(data) THEN bidaily_data
                       ELSE Append(bidaily_data, SubWindowFrame(data))
    /\ UNCHANGED <<pc, output, warnings>>

\* an attempt of the wrapped call fails and will be retried
FetchFails ==
    /\ InLoop
    /\ attempt < MaxAttempts
    /\ attempt' = attempt + 1
    /\ UNCHANGED <<asset, pc, warnings, output, start, end, remote, days_list,
                   i, bidaily_data, fetched>>
    /\ UNCHANGED desfaVars

\* an attempt succeeds: the loop body runs on the response
FetchSucceeds ==
    /\ InLoop
    /\ attempt < MaxAttempts
    /\ LoopBody(ApiCall(remote, days_list[i], days_list[i] + 1), "ok")
    /\ UNCHANGED <<asset, start, end, remote, days_list>>
    /\ UNCHANGED desfaVars

\* the attempts are used up: the wrapper gives up on this sub-window and hands
\* back an empty frame
RetriesExhausted ==
    /\ InLoop
    /\ attempt = MaxAttempts
    /\ LoopBody(<<>>, "gave_up")
    /\ UNCHANGED <<asset, start, end, remote, days_list>>
    /\ UNCHANGED desfaVars

\* after the loop: return Output(value=None) or the concatenated table
Return ==
    /\ pc = "loop"
    /\ i > Len(days_list)
    /\ warnings' = warnings \o DuplicateWarnings(bidaily_data)
    /\ output' = ReturnValue(bidaily_data)
    /\ pc' = "done"
    /\ UNCHANGED <<asset, start, end, remote, days_list, i, attempt,
                   bidaily_data, fetched>>
    /\ UNCHANGED desfaVars

NextEntsog == FetchFails \/ FetchSucceeds \/ RetriesExhausted \/ Return

SpecEntsog == InitEntsog /\ [][NextEntsog]_vars

---------------------------------------------------------------------------
(* Text *)

DigitChars == <<"0", "1", "2", "3", "4", "5", "6", "7", "8", "9">>
IsDigit(c) == \E d \in 1..10 : DigitChars[d] = c
DigitVal(c) == (CHOOSE d \in 1..10 : DigitChars[d] = c) - 1

RECURSIVE Digits(_)
\* str(n) of a non-negative integer
Digits(n) ==
    IF n < 10 THEN <<DigitChars[n + 1]>>
    ELSE Digits(n \div 10) \o <<DigitChars[(n % 10) + 1]>>

RECURSIVE ParseNat(_)
ParseNat(txt) ==
    IF txt = <<>> THEN 0
    ELSE 10 * ParseNat(SubSeq(txt, 1, Len(txt) - 1)) + DigitVal(txt[Len(txt)])

AllDigits(txt) == txt # <<>> /\ \A k \in 1..Len(txt) : IsDigit(txt[k])

\* sub in text
Contains(txt, sub) ==
    \E k \in 0..(Len(txt) - Len(sub)) :
        \A j \in 1..Len(sub) : txt[k + j] = sub[j]

\* text.endswith(suffix)
EndsWith(txt, suffix) ==
    /\ Len(txt) >= Len(suffix)
    /\ \A j \in 1..Len(suffix) : txt[Len(txt) - Len(suffix) + j] = suffix[j]

\* Numbers are floats with one decimal, held in tenths: Num(12) is 1.2.
\* str(float): '1.2'
FloatText(n) == Digits(n \div 10) \o <<".">> \o Digits(n % 10)

NanText == <<"n", "a", "n">>

IntCell(n) == [t |-> "int", n |-> n, s |-> <<>>]
Ts(y) == [t |-> "ts", n |-> y, s |-> <<>>]
NaT == [t |-> "nat", n |-> 0, s |-> <<>>]
Raised == [t |-> "raise", n |-> 0, s |-> <<>>]
Dash == Str(<<"-">>)

\* str(cell), as astype(str) and to_string render a cell
AsText(cell) ==
    CASE cell.t = "str" -> cell.s
      [] cell.t = "num" -> FloatText(cell.n)
      [] cell.t = "int" -> Digits(cell.n)
      [] cell.t = "ts" -> Digits(cell.n) \o <<"-", "0", "1", "-", "0", "1">>
      [] OTHER -> NanText

\* float(text), as astype(np.float64) parses one cell
ParseFloat(txt) ==
    IF txt = NanText THEN NaN
    ELSE IF AllDigits(txt) THEN Num(10 * ParseNat(txt))
    ELSE IF /\ Len(txt) >= 3
            /\ txt[Len(txt) - 1] = "."
            /\ AllDigits(SubSeq(txt, 1, Len(txt) - 2))
            /\ IsDigit(txt[Len(txt)])
         THEN Num(10 * ParseNat(SubSeq(txt, 1, Len(txt) - 2)) + DigitVal(txt[Len(txt)]))
    ELSE Raised

\* pd.to_datetime(cell, format='%Y'): January 1st of the year
ToDatetimeYear(cell) ==
    CASE cell.t = "int" -> Ts(cell.n)
      [] cell.t = "ts" -> cell
      [] cell.t \in {"nan", "none", "nat"} -> NaT
      [] cell.t = "str" ->
            IF Len(cell.s) = 4 /\ AllDigits(cell.s) THEN Ts(ParseNat(cell.s))
            ELSE Raised
      [] OTHER -> Raised

\* utils.common.replace_dash_with_nan
replace_dash_with_nan(cell) == IF cell = Dash THEN NaN ELSE cell

---------------------------------------------------------------------------
(* Spreadsheet assets: the fetched sheets *)

SpreadsheetAssets == {"desfa_flows_daily", "desfa_ng_quality_yearly",
                      "desfa_ng_gcv_daily"}

\* most data rows of a wide sheet
MaxRows == 2
\* the earliest year the quality asset is run in
ThisYear == 2024
\* most years the quality sheet lags behind the current year
MaxLag == 5

\* number of leading point columns that are entry points
NEntry == 4

LA == <<"A">>
LB == <<"B">>
LC == <<"C">>
LD == <<"D">>
LAentry == <<"A", "_", "e", "n", "t", "r", "y">>
LAexit == <<"A", "_", "e", "x", "i", "t">>

EntryHeaders == {<<LA, LB, LC, LD>>, <<LAexit, LB, LC, LAentry>>,
                 <<LAentry, LA, LAexit, LB>>}
ExitHeaders == {<<LA>>, <<LAentry>>, <<LAexit, LD>>, <<LB, LAexit>>}

\* the word that marks an aggregate row (the Greek word for 'total')
TotalMarker == <<"S", "Y", "N", "O", "L", "O">>

SheetYears == {2008, 2009}

RECURSIVE SeqsUpTo(_, _)
SeqsUpTo(S, n) ==
    IF n = 0 THEN {<<>>}
    ELSE LET shorter == SeqsUpTo(S, n - 1)
         IN  shorter \cup {Append(q, x) : q \in shorter, x \in S}

\* a data row: its year and the point column holding a dash (0: none)
DataRowsOf(npoints) ==
    [kind : {"data"}, year : SheetYears, dash : {0, 1, npoints}]
TotalRow == [kind |-> "total", year |-> 0, dash |-> 0]

\* the sheets of Flows.xlsx: point headers, then data rows mixed with
\* aggregate rows
FlowsSheets ==
    UNION {[header : {eh \o xh},
            body : SeqsUpTo(DataRowsOf(Len(eh \o xh)) \cup {TotalRow}, MaxRows)]
           : eh \in EntryHeaders, xh \in ExitHeaders}

\* the sheets of GCV.xlsx: point headers and data rows; the sheet ends with
\* four rows of aggregates and notes and has one more column on the right
GcvSheets ==
    UNION {[header : {eh \o xh},
            body : SeqsUpTo(DataRowsOf(Len(eh \o xh)), MaxRows)]
           : eh \in EntryHeaders, xh \in ExitHeaders}

\* one row of a wide sheet: the point cells around the empty column 5
WideRow(first, cells) ==
    <<first>> \o SubSeq(cells, 1, NEntry) \o <<NaN>>
              \o SubSeq(cells, NEntry + 1, Len(cells))

BodyRow(r, npoints) ==
    IF r.kind = "total"
    THEN WideRow(Str(TotalMarker \o <<" ">> \o Digits(2008)),
                 [j \in 1..npoints |-> Num(990 + j)])
    ELSE WideRow(IntCell(r.year),
                 [j \in 1..npoints |-> IF j = r.dash THEN Dash ELSE Num(10 * j + 5)])

TitleRow(npoints) == WideRow(Str(LA), [j \in 1..npoints |-> NaN])

\* the frame pd.read_excel gives for a Flows sheet
FlowsDf(sh) ==
    LET n == Len(sh.header) IN
    <<TitleRow(n), TitleRow(n), TitleRow(n)>>
    \o <<WideRow(Str(LD), [j \in 1..n |-> Str(sh.header[j])])>>
    \o [k \in 1..Len(sh.body) |-> BodyRow(sh.body[k], n)]

\* the frame pd.read_excel gives for a GCV sheet
GcvDf(sh) ==
    LET n == Len(sh.header)
        wide == <<TitleRow(n), TitleRow(n), TitleRow(n)>>
                \o <<WideRow(Str(LD), [j \in 1..n |-> Str(sh.header[j])])>>
                \o [k \in 1..Len(sh.body) |-> BodyRow(sh.body[k], n)]
                \o [k \in 1..4 |-> BodyRow(TotalRow, n)]
    IN  [k \in 1..Len(wide) |-> Append(wide[k], Str(LC))]

\* the entry points the quality asset looks for, in this order
entry_points == <<<<"A", "G", "I", "A", " ", "T", "R", "I", "A", "D", "A">>, <<"S", "I", "D", "I", "R", "O", "K", "A", "S", "T", "R", "O">>, <<"K", "I", "P", "I">>, <<"N", "E", "A", " ", "M", "E", "S", "I", "M", "V", "R", "I", "A">>>>

MarkerPrefix == <<"E", "n", "t", "r", "y", " ", "P", "o", "i", "n", "t", ":", " ">>
NeaMesimvria == <<"N", "E", "A", " ", "M", "E", "S", "I", "M", "V", "R", "I", "A">>

\* the first year of the block of NEA MESIMVRIA
StartYearNeaMesimvria == 2021
\* the first year of the blocks of the other entry points
StartYearOthers == 2008

StartYear(name) ==
    IF Contains(name, NeaMesimvria) THEN StartYearNeaMesimvria ELSE StartYearOthers

QualityColumns == <<"c1", "c2", "c3", "i_c4", "n_c4", "i_c5", "n_c5", "neo_c5",
                    "c6_plus", "n2", "co2", "gross_heating_value", "wobbe_index",
                    "water_dew_point", "hydrocarbon_dew_point_max">>
NQuality == Len(QualityColumns)
ColumnNo(name) == CHOOSE c \in 1..NQuality : QualityColumns[c] = name

LessThanCell == Str(<<"<", "1", ".", "2">>)

\* what one block of the sheet may hold beside plain numbers: a dash, a
\* '<'-prefixed number, or both, in the first or in the last quality column
QualityPatterns ==
    {[kind |-> "plain", col |-> 0]}
    \cup [kind : {"dash", "lt", "mix"}, col : {1, NQuality}]

\* the sheets of NG-QUALITY.xls: which entry points it has a block for, how
\* many years its blocks lag behind the current year, and the odd cells of its
\* first block
QualitySheets ==
    [present : SUBSET (1..Len(entry_points)), lag : 0..MaxLag,
     pattern : QualityPatterns]

\* the number of yearly rows the sheet holds for entry point p
YearRows(sh, p, year) ==
    IF year - sh.lag - StartYear(entry_points[p]) + 1 > 0
    THEN year - sh.lag - StartYear(entry_points[p]) + 1
    ELSE 0

QualityCell(sh, p, r, c) ==
    IF /\ sh.present # {}
       /\ p = CHOOSE q \in sh.present : \A o \in sh.present : q <= o
       /\ c = sh.pattern.col
    THEN CASE sh.pattern.kind = "dash" /\ r = 1 -> Dash
           [] sh.pattern.kind = "lt" /\ r = 1 -> LessThanCell
           [] sh.pattern.kind = "mix" /\ r = 1 -> LessThanCell
           [] sh.pattern.kind = "mix" /\ r = 2 -> Dash
           [] OTHER -> Num(10 + c)
    ELSE Num(10 + c)

\* a row of the quality sheet: 16 columns and one more on the right
QRow(first, cells) == <<first>> \o cells \o <<Str(LC)>>

BlankQRow == QRow(NaN, [c \in 1..NQuality |-> NaN])

\* the rows of the block of entry point p: the marker row, two rows of column
\* titles, one row per year, one blank row
Section(sh, p, year) ==
    IF p \notin sh.present THEN <<>>
    ELSE <<QRow(Str(MarkerPrefix \o entry_points[p]), [c \in 1..NQuality |-> NaN]),
           QRow(Str(LA), [c \in 1..NQuality |-> Str(LB)]),
           QRow(NaN, [c \in 1..NQuality |-> Str(LD)])>>
         \o [r \in 1..YearRows(sh, p, year) |->
                QRow(IntCell(StartYear(entry_points[p]) + r - 1),
                     [c \in 1..NQuality |-> QualityCell(sh, p, r, c)])]
         \o <<BlankQRow>>

RECURSIVE SectionsFrom(_, _, _)
SectionsFrom(sh, p, year) ==
    IF p > Len(entry_points) THEN <<>>
    ELSE Section(sh, p, year) \o SectionsFrom(sh, p + 1, year)

\* the frame pd.read_excel gives for a quality sheet
QualityDf(sh, year) == <<BlankQRow>> \o SectionsFrom(sh, 1, year)

---------------------------------------------------------------------------
(* Spreadsheet assets: the reshaping *)

EntrySuffix == <<"_", "e", "n", "t", "r", "y">>
ExitSuffix == <<"_", "e", "x", "i", "t">>

\* df.drop(df.columns[c - 1], axis=1)
DropColumn(row, c) == SubSeq(row, 1, c - 1) \o SubSeq(row, c + 1, Len(row))

\* ~df.iloc[:, 0].astype(str).str.contains(marker)
NotAggregate(row) == ~Contains(AsText(row[1]), TotalMarker)

\* the header labels, suffixed by the group of their column
NewHeaders(cells) ==
    [j \in 1..Len(cells) |->
        cells[j].s \o (IF j <= NEntry THEN EntrySuffix ELSE ExitSuffix)]

label_point_as_entry_or_exit(point) ==
    IF EndsWith(point, EntrySuffix) THEN "entry" ELSE "exit"

remove_suffix_always_five(point) == SubSeq(point, 1, Len(point) - 5)

remove_suffix(point) ==
    IF EndsWith(point, EntrySuffix)
    THEN SubSeq(point, 1, Len(point) - 6)
    ELSE SubSeq(point, 1, Len(point) - 5)

\* From the frame whose first row is the header row: name the columns, drop
\* the header row, parse the timestamps, melt, label and strip the suffix.
\* The long rows come column by column.
WideToLong(frame) ==
    LET new_headers == NewHeaders(Tail(frame[1]))
        data == Tail(frame)
        nrows == Len(data)
    IN  [k \in 1..(Len(new_headers) * nrows) |->
            LET j == ((k - 1) \div nrows) + 1
                r == ((k - 1) % nrows) + 1
            IN  [timestamp |-> ToDatetimeYear(data[r][1]),
                 point_id |-> remove_suffix(new_headers[j]),
                 point_type |-> label_point_as_entry_or_exit(new_headers[j]),
                 value |-> data[r][j + 1]]]

\* the rows desfa_flows_daily strips before reshaping
FlowsStrip(df) ==
    LET dropped == MapSeq(df, LAMBDA row : DropColumn(row, 6))
    IN  SelectSeq(SubSeq(dropped, 4, Len(dropped)), NotAggregate)

\* the long frame of desfa_flows_daily
FlowsLong(df) == WideToLong(FlowsStrip(df))

\* the rows and columns desfa_ng_gcv_daily strips before reshaping
GcvStrip(df) ==
    LET dropped == MapSeq(df, LAMBDA row : DropColumn(row, 6))
        rest == SubSeq(dropped, 4, Len(dropped))
        narrow == MapSeq(rest, LAMBDA row : SubSeq(row, 1, Len(row) - 1))
    IN  SubSeq(narrow, 1, Len(narrow) - 4)

\* the long frame of desfa_ng_gcv_daily
GcvLong(df) ==
    MapSeq(WideToLong(GcvStrip(df)),
           LAMBDA r : [r EXCEPT !.value = replace_dash_with_nan(r.value)])

\* an exception leaves the reshaping: no header row, or a timestamp that
\* does not parse
ReshapeRaises(frame) ==
    \/ frame = <<>>
    \/ \E k \in 2..Len(frame) : ToDatetimeYear(frame[k][1]) = Raised

---------------------------------------------------------------------------
(* Spreadsheet assets: the quality blocks *)

MarkerOf(name) == MarkerPrefix \o name

\* f"Entry Point: {name}" in full_df.iloc[row].to_string()
HasMarker(row, name) ==
    \E c \in 1..Len(row) : Contains(AsText(row[c]), MarkerOf(name))

MarkerRows(df, name) == {k \in 1..Len(df) : HasMarker(df[k], name)}

Found(df, name) == MarkerRows(df, name) # {}

\* start_row, counted from 0: three rows below the first row with the marker
StartRow(df, name) ==
    (CHOOSE k \in MarkerRows(df, name) : \A o \in MarkerRows(df, name) : k <= o)
    - 1 + 3

Min2(a, b) == IF a <= b THEN a ELSE b

\* end_row, counted from 0 and excluded
EndRow(df, name, year) ==
    Min2(StartRow(df, name) + (year - StartYear(name)) + 1, Len(df))

\* full_df.iloc[start_row:end_row, :16]
BlockRows(df, name, year) ==
    MapSeq(SubSeq(df, StartRow(df, name) + 1, EndRow(df, name, year)),
           LAMBDA row : SubSeq(row, 1, 16))

\* .str.replace('<', '')
StripLessThan(txt) == SelectSeq(txt, LAMBDA ch : ch # "<")

LessThanColumnsNone == {}

\* the columns whose '<' prefix the asset strips
LessThanColumns == {ColumnNo("hydrocarbon_dew_point_max")}

\* astype(str), replace, astype(np.float64) on the cells of one column, when
\* the column holds text
CleanColumn(cells) ==
    IF \E k \in 1..Len(cells) : cells[k].t = "str"
    THEN MapSeq(cells, LAMBDA x : ParseFloat(StripLessThan(AsText(x))))
    ELSE cells

\* the block of one entry point, as stored in dataframes[name]
Block(df, name, year) ==
    LET rows == BlockRows(df, name, year)
        mapped == [r \in 1..Len(rows) |->
                     [c \in 1..NQuality |-> replace_dash_with_nan(rows[r][c + 1])]]
        column(c) == [r \in 1..Len(rows) |-> mapped[r][c]]
        cleaned(c) == IF c \in LessThanColumns THEN CleanColumn(column(c))
                      ELSE column(c)
    IN  [r \in 1..Len(rows) |->
            [timestamp |-> ToDatetimeYear(rows[r][1]),
             point_id |-> name,
             cells |-> [c \in 1..NQuality |-> cleaned(c)[r]]]]

BlockRaises(block) ==
    \E r \in 1..Len(block) :
        \/ block[r].timestamp = Raised
        \/ \E c \in 1..NQuality : block[r].cells[c] = Raised

\* the entry points (by position) whose handling raises
RaisingPoints(df, year) ==
    {p \in 1..Len(entry_points) :
        Found(df, entry_points[p]) /\ BlockRaises(Block(df, entry_points[p], year))}

RECURSIVE BlocksFrom(_, _, _, _)
\* dataframes.values() after the loop has handled the points p..last
BlocksFrom(df, year, p, last) ==
    IF p > last THEN <<>>
    ELSE (IF Found(df, entry_points[p])
          THEN <<Block(df, entry_points[p], year)>> ELSE <<>>)
         \o BlocksFrom(df, year, p + 1, last)

RECURSIVE MissingWarningsFrom(_, _, _)
\* the warnings the loop logs while handling the points p..last
MissingWarningsFrom(df, p, last) ==
    IF p > last THEN <<>>
    ELSE (IF Found(df, entry_points[p]) THEN <<>>
          ELSE <<[kind |-> "no_data", point |-> entry_points[p]]>>)
         \o MissingWarningsFrom(df, p + 1, last)

---------------------------------------------------------------------------
(* Spreadsheet assets: the runs *)

NoResponse == [status_code |-> 0, content |-> <<>>]

SheetsOf(a) ==
    CASE a = "desfa_flows_daily" -> FlowsSheets
      [] a = "desfa_ng_quality_yearly" -> QualitySheets
      [] a = "desfa_ng_gcv_daily" -> GcvSheets

\* what requests.get may answer: a sheet with status 200, or a failure status
\* (the body of a failure answer is one fixed sheet)
Responses(a) ==
    [status_code : {200}, content : SheetsOf(a)]
    \cup [status_code : {404, 500}, content : {CHOOSE sh \in SheetsOf(a) : TRUE}]

StatusOkOrServerError(r) == r.status_code \in {200, 500}

\* response.status_code == 200
StatusOk(r) == r.status_code = 200

\* pd.concat(dataframes.values()) raises on an empty list
ConcatRaises(blocks) == blocks = <<>>

InitDesfa ==
    /\ asset \in SpreadsheetAssets
    /\ pc = "get"
    /\ warnings = <<>>
    /\ output = NotReturned
    /\ current_year \in (IF asset = "desfa_ng_quality_yearly"
                          THEN ThisYear..(ThisYear + 1) ELSE {ThisYear})
    /\ gets = 0
    /\ response = NoResponse
    /\ parsed = FALSE
    /\ start = 0
    /\ end = 0
    /\ remote = <<>>
    /\ days_list = <<>>
    /\ i = 0
    /\ attempt = 0
    /\ bidaily_data = <<>>
    /\ fetched = <<>>

\* response = requests.get(url)
Get ==
    /\ pc = "get"
    /\ gets' = gets + 1
    /\ \E r \in Responses(asset) : response' = r
    /\ pc' = "fetched"
    /\ UNCHANGED <<asset, warnings, output, current_year, parsed>>
    /\ UNCHANGED entsogVars

\* the else branch of the status check: raise Exception(...)
RaiseOnStatus ==
    /\ pc = "fetched"
    /\ ~StatusOk(response)
    /\ pc' = "error"
    /\ UNCHANGED <<asset, warnings, output, current_year, gets, response, parsed>>
    /\ UNCHANGED entsogVars

\* desfa_flows_daily, status 200: read the sheet, reshape, return
FlowsDaily ==
    /\ pc = "fetched"
    /\ asset = "desfa_flows_daily"
    /\ StatusOk(response)
    /\ parsed' = TRUE
    /\ LET df == FlowsDf(response.content)
       IN  IF ReshapeRaises(FlowsStrip(df))
           THEN pc' = "error" /\ UNCHANGED output
           ELSE pc' = "done" /\ output' = OutputTable(FlowsLong(df))
    /\ UNCHANGED <<asset, warnings, current_year, gets, response>>
    /\ UNCHANGED entsogVars

\* desfa_ng_gcv_daily, status 200: read the sheet, reshape, return
GcvDaily ==
    /\ pc = "fetched"
    /\ asset = "desfa_ng_gcv_daily"
    /\ StatusOk(response)
    /\ parsed' = TRUE
    /\ LET df == GcvDf(response.content)
       IN  IF ReshapeRaises(GcvStrip(df))
           THEN pc' = "error" /\ UNCHANGED output
           ELSE pc' = "done" /\ output' = OutputTable(GcvLong(df))
    /\ UNCHANGED <<asset, warnings, current_year, gets, response>>
    /\ UNCHANGED entsogVars

\* desfa_ng_quality_yearly, status 200: read the sheet, take the block of each
\* entry point or warn, concatenate, return
QualityYearly ==
    /\ pc = "fetched"
    /\ asset = "desfa_ng_quality_yearly"
    /\ StatusOk(response)
    /\ parsed' = TRUE
    /\ LET df == QualityDf(response.content, current_year)
           n == Len(entry_points)
           bad == RaisingPoints(df, current_year)
           blocks == BlocksFrom(df, current_year, 1, n)
       IN  IF bad # {}
           THEN LET p == CHOOSE q \in bad : \A o \in bad : q <= o
                IN  /\ warnings' = warnings \o MissingWarningsFrom(df, 1, p - 1)
                    /\ pc' = "error"
                    /\ UNCHANGED output
           ELSE /\ warnings' = warnings \o MissingWarningsFrom(df, 1, n)
                /\ IF ConcatRaises(blocks)
                   THEN pc' = "error" /\ UNCHANGED output
                   ELSE pc' = "done" /\ output' = OutputTable(Concat(blocks))
    /\ UNCHANGED <<asset, current_year, gets, response>>
    /\ UNCHANGED entsogVars

NextDesfa == Get \/ RaiseOnStatus \/ FlowsDaily \/ GcvDaily \/ QualityYearly

SpecDesfa == InitDesfa /\ [][NextDesfa]_vars

---------------------------------------------------------------------------
(* Properties of the ENTSOG assets *)

Done == pc = "done"

OutRows == IF output.kind = "table" THEN output.rows ELSE <<>>

AllCallsSucceeded == \A k \in DOMAIN fetched : fetched[k].outcome = "ok"

\* the response the k-th returned call carried
ResponseOf(k) ==
    IF fetched[k].outcome = "ok"
    THEN ApiCall(remote, fetched[k].day, fetched[k].day + 1)
    ELSE <<>>

\* the filtered frame of the k-th returned call (nothing for an empty response)
FrameOf(k) ==
    IF IsEmptyFrame(ResponseOf(k)) THEN <<>> ELSE SubWindowFrame(ResponseOf(k))

RECURSIVE FramesUpTo(_)
FramesUpTo(k) == IF k = 0 THEN <<>> ELSE FramesUpTo(k - 1) \o FrameOf(k)

Count(rows, r) == Cardinality({k \in 1..Len(rows) : rows[k] = r})
Range(rows) == {rows[k] : k \in 1..Len(rows)}
SameBag(a, b) ==
    \A r \in Range(a) \cup Range(b) : Count(a, r) = Count(b, r)

\* the table of one request over the whole partition window
UnsplitTable ==
    LET data == ApiCall(remote, start, end)
    IN  IF IsEmptyFrame(data) THEN <<>> ELSE SubWindowFrame(data)

\* C1: when every sub-window call succeeded, the rows of the run's output are
\* the rows of the table of one unsplit request over the partition window:
\* nothing lost, nothing added, nothing twice.
C1_SplitEqualsUnsplit ==
    (Done /\ AllCallsSucceeded) => SameBag(OutRows, UnsplitTable)

\* C2: a run whose concatenation of sub-window frames has no rows returns
\* Output(value=None), never a table without rows.
C2_EmptyConcatIsAbsent ==
    (Done /\ Concat(bidaily_data) = <<>>) => output = OutputNone

AllResponsesEmpty ==
    \A k \in DOMAIN fetched :
        fetched[k].outcome = "ok" /\ IsEmptyFrame(ResponseOf(k))

\* C3: when the API call returned an empty result for every sub-window, no
\* frame is kept, no warning is logged and the run returns Output(value=None).
C3_AllEmptyIsAbsent ==
    AllResponsesEmpty =>
        /\ bidaily_data = <<>>
        /\ warnings = <<>>
        /\ Done => output = OutputNone

C3_Witness ==
    /\ Done
    /\ Len(fetched) >= 2
    /\ AllResponsesEmpty
    /\ output = OutputNone

\* C4: a returned table holds exactly the rows of the filtered sub-window
\* frames, colliding keys included; one warning listing all the colliding rows
\* is logged when the key is not unique, none when it is unique.
C4_DuplicatesKeptAndWarnedOnce ==
    (Done /\ output.kind = "table") =>
        /\ SameBag(output.rows, FramesUpTo(Len(fetched)))
        /\ IndexIsUnique(output.rows) => warnings = <<>>
        /\ ~IndexIsUnique(output.rows) =>
              /\ Len(warnings) = 1
              /\ Range(warnings[1].rows) =
                    {r \in Range(output.rows) :
                        \E j, k \in 1..Len(output.rows) :
                            /\ j # k
                            /\ output.rows[k] = r
                            /\ Key(output.rows[j]) = Key(r)}

C4_Witness ==
    /\ Done
    /\ output.kind = "table"
    /\ ~IndexIsUnique(output.rows)
    /\ Len(warnings) = 1
    /\ Len(warnings[1].rows) >= 2

GoodValue(v) == v.t = "num" \/ (v.t = "str" /\ v.s # <<>>)

\* the rows of the k-th returned call as the table would index them
SourceRowsOf(k) == MapSeq(MapSeq(ResponseOf(k), LabelWithTso), Canonical)

RECURSIVE SourceRowsUpTo(_)
SourceRowsUpTo(k) ==
    IF k = 0 THEN <<>> ELSE SourceRowsUpTo(k - 1) \o SourceRowsOf(k)

\* C11: no row of the returned table has a value that is the empty string or
\* null, and every row of a sub-window response whose value is neither is in
\* the table as many times as the responses carry it.
C11_NoMissingValuesAndGoodRowsKept ==
    (asset \in EntsogAssets /\ Done) =>
        /\ \A r \in Range(OutRows) : GoodValue(r.value)
        /\ \A r \in Range(SourceRowsUpTo(Len(fetched))) :
              GoodValue(r.value) =>
                  Count(OutRows, r) = Count(SourceRowsUpTo(Len(fetched)), r)

C11_Witness ==
    /\ Done
    /\ output.kind = "table"
    /\ \E r \in Range(SourceRowsUpTo(Len(fetched))) : r.value = EmptyStr
    /\ \E r \in Range(SourceRowsUpTo(Len(fetched))) : r.value = NoneVal
    /\ \E r \in Range(SourceRowsUpTo(Len(fetched))) :
          GoodValue(r.value) /\ r \in Range(output.rows)

\* the sub-window of the run a table row falls in, by its gas day
SubWindowOf(r) == ((r.timestamp \div 24) - start) \div 2

\* C12: the sub-windows are fetched one at a time in ascending order of their
\* start: a fetch is in progress only for sub-window i, every earlier
\* sub-window has returned and its frame is already appended, and the rows of
\* the output are in sub-window order.
C12_SubWindowsInOrder ==
    asset \in EntsogAssets =>
        /\ Len(fetched) = i - 1
        /\ \A k \in DOMAIN fetched : fetched[k].day = days_list[k]
        /\ \A j, k \in DOMAIN fetched : j < k => fetched[j].day < fetched[k].day
        /\ attempt > 0 => InLoop
        /\ Concat(bidaily_data) = FramesUpTo(Len(fetched))
        /\ Done => OutRows = FramesUpTo(Len(fetched))
        /\ \A a, b \in DOMAIN OutRows :
              a < b => SubWindowOf(OutRows[a]) <= SubWindowOf(OutRows[b])

C12_Witness ==
    /\ Done
    /\ Len(fetched) >= 2
    /\ fetched[1].outcome = "ok" /\ fetched[2].outcome = "ok"
    /\ FrameOf(1) # <<>> /\ FrameOf(2) # <<>>
    /\ output.rows = FrameOf(1) \o FrameOf(2)
    /\ SubWindowOf(output.rows[1]) < SubWindowOf(output.rows[Len(output.rows)])

\* C13: every sub-window request stays inside the half-open partition window
\* [start, end): its start day d has start <= d < end and its requested end
\* d + 1 does not exceed end.
C13_RequestsInsideWindow ==
    \A k \in DOMAIN fetched :
        /\ start <= fetched[k].day
        /\ fetched[k].day < end
        /\ fetched[k].day + 1 <= end

---------------------------------------------------------------------------
(* Properties of the spreadsheet assets *)

QualityRun == asset = "desfa_ng_quality_yearly"
WideRun == asset \in {"desfa_flows_daily", "desfa_ng_gcv_daily"}

sheet == response.content

\* the entry points the fetched quality sheet has a marker for
PresentPoints == {entry_points[p] : p \in sheet.present}
MissingPoints == {entry_points[p] : p \in (1..Len(entry_points)) \ sheet.present}

\* C5: whatever entry-point markers the sheet lacks, the run completes, its
\* output holds exactly the blocks of the points found, and one warning is
\* logged per missing point.
C5_MissingMarkersTolerated ==
    (QualityRun /\ parsed) =>
        /\ Done
        /\ output.kind = "table"
        /\ {r.point_id : r \in Range(output.rows)} = PresentPoints
        /\ Len(warnings) = Cardinality(MissingPoints)
        /\ {w.point : w \in Range(warnings)} = MissingPoints

\* C6: after an answer whose status is not 200, exactly one GET was issued,
\* nothing was parsed, no Output was returned, and the run can only raise.
C6_Non200IsFatal ==
    (pc # "get" /\ response.status_code # 200) =>
        /\ gets = 1
        /\ ~parsed
        /\ output = NotReturned
        /\ pc \in {"fetched", "error"}
        /\ pc = "fetched" =>
              /\ ENABLED RaiseOnStatus
              /\ ~ENABLED (FlowsDaily \/ GcvDaily \/ QualityYearly \/ Get)

C6_Witness ==
    /\ pc = "error"
    /\ response.status_code = 500
    /\ gets = 1
    /\ ~parsed

PointType(j) == IF j <= NEntry THEN "entry" ELSE "exit"

\* the data rows of a wide sheet: not the header, not an aggregate
DataRows(sh) == {k \in 1..Len(sh.body) : sh.body[k].kind = "data"}

ExpectedKeys(sh) ==
    {<<Ts(sh.body[k].year), sh.header[j], PointType(j)>> :
        k \in DataRows(sh), j \in 1..Len(sh.header)}

ValueCells(r) ==
    IF QualityRun THEN Range(r.cells) ELSE {r.value}

\* the first entry point the quality sheet has a block for
FirstPresent == CHOOSE q \in sheet.present : \A o \in sheet.present : q <= o

\* the output cell of the quality table for data row r of the first block, in
\* quality column c
QualityOut(r, c) ==
    {x.cells[c] : x \in {y \in Range(output.rows) :
        /\ y.point_id = entry_points[FirstPresent]
        /\ y.timestamp = Ts(StartYear(entry_points[FirstPresent]) + r - 1)}}

\* the output column c of the first block
QualityOutColumn(c) ==
    {x.cells[c] : x \in {y \in Range(output.rows) :
        y.point_id = entry_points[FirstPresent]}}

\* every dash cell of the sheet's data is a missing value in the output
DashesAreMissing ==
    IF QualityRun
    THEN (/\ sheet.present # {}
          /\ sheet.pattern.kind \in {"dash", "mix"}
          /\ YearRows(sheet, FirstPresent, current_year) >=
                (IF sheet.pattern.kind = "dash" THEN 1 ELSE 2)) =>
            QualityOut(IF sheet.pattern.kind = "dash" THEN 1 ELSE 2,
                       sheet.pattern.col) = {NaN}
    ELSE \A k \in DataRows(sheet) :
            sheet.body[k].dash # 0 =>
                \E r \in Range(output.rows) :
                    /\ Key(r) = <<Ts(sheet.body[k].year),
                                  sheet.header[sheet.body[k].dash],
                                  PointType(sheet.body[k].dash)>>
                    /\ r.value = NaN

\* C8: in each spreadsheet asset no output cell holds the dash, and every
\* dash cell of the source is a missing value in the output.
C8_DashBecomesMissing ==
    (asset \in SpreadsheetAssets /\ Done) =>
        /\ \A r \in Range(output.rows) : Dash \notin ValueCells(r)
        /\ DashesAreMissing

\* the first block of the sheet holds a '<1.2' cell
HasLessThan ==
    /\ sheet.present # {}
    /\ sheet.pattern.kind \in {"lt", "mix"}
    /\ YearRows(sheet, FirstPresent, current_year) >= 1

HydrocarbonColumn == ColumnNo("hydrocarbon_dew_point_max")

\* the '<1.2' cell of column c is the number 1.2 in the output and the column
\* holds numbers and missing values only
LessThanParsed(c) ==
    /\ QualityOut(1, c) = {Num(12)}
    /\ \A x \in QualityOutColumn(c) : x.t \in {"num", "nan"}

\* C9 as claimed: in each of the 15 quality columns a '<'-prefixed number is
\* that number in the output, also beside dashes.
C9_LessThanStrippedInEveryColumn ==
    (QualityRun /\ Done /\ HasLessThan) => LessThanParsed(sheet.pattern.col)

\* C9 as amended: in the column hydrocarbon_dew_point_max a '<'-prefixed
\* number is that number in the output, also beside dashes; in every other
\* quality column the cell is left as the text it was.
C9_LessThanStrippedInHydrocarbonColumn ==
    (QualityRun /\ Done /\ HasLessThan) =>
        IF sheet.pattern.col = HydrocarbonColumn
        THEN LessThanParsed(sheet.pattern.col)
        ELSE QualityOut(1, sheet.pattern.col) = {LessThanCell}

C9_Witness ==
    /\ QualityRun /\ Done
    /\ sheet.present # {}
    /\ sheet.pattern = [kind |-> "mix", col |-> HydrocarbonColumn]
    /\ QualityOut(1, HydrocarbonColumn) = {Num(12)}
    /\ QualityOut(2, HydrocarbonColumn) = {NaN}

\* the sheet rows, numbered from 1, of the block taken from df for entry point p
TakenRows(df, p, year) ==
    (StartRow(df, entry_points[p]) + 1)..EndRow(df, entry_points[p], year)

\* the first row of df, numbered from 1, whose first cell is the marker of p
FirstMarkerRow(df, p) ==
    LET hits == {k \in 1..Len(df) : df[k][1] = Str(MarkerPrefix \o entry_points[p])}
    IN  CHOOSE k \in hits : \A o \in hits : k <= o

\* C14: the block taken for an entry point starts 3 rows below the first row
\* with its marker, holds at most (current year - start year + 1) rows, stays
\* within the sheet, shares no row with the block of another entry point, and
\* every row of it carries the point's name as point_id.
C14_BlockOfEntryPoint ==
    (QualityRun /\ parsed) =>
        LET df == QualityDf(sheet, current_year)
            taken == [p \in sheet.present |-> TakenRows(df, p, current_year)]
        IN  \A p \in sheet.present :
                /\ \A k \in taken[p] : k >= FirstMarkerRow(df, p) + 3
                /\ taken[p] # {} => FirstMarkerRow(df, p) + 3 \in taken[p]
                /\ Cardinality(taken[p]) <=
                      current_year - StartYear(entry_points[p]) + 1
                /\ \A k \in taken[p] : k <= Len(df)
                /\ \A q \in sheet.present \ {p} : taken[p] \cap taken[q] = {}
                /\ \A r \in Range(Block(df, entry_points[p], current_year)) :
                      r.point_id = entry_points[p]

---------------------------------------------------------------------------
(* All assets *)

Init == InitEntsog \/ InitDesfa

Next == NextEntsog \/ NextDesfa

Spec == Init /\ [][Next]_vars

=============================================================================
